---- MODULE Spec2Model ----
(***************************************************************************)
(* Model of combinato/artifacts/mask_artifacts.py: the four artifact       *)
(* detectors (mark_by_diff, mark_by_height, mark_by_bincount,              *)
(* mark_double_detection), main() which runs them over both polarities of  *)
(* one recording, and the loop of parse_args() over the recordings.        *)
(*                                                                         *)
(* Time stamps are whole numbers of one time unit.  The unit is chosen so  *)
(* that binlength / 2 is a whole number; the thresholds of the detectors   *)
(* are scaled down with it so that a handful of spikes reaches them (the   *)
(* source has 500 ms bins of at most 100 spikes, 1.5 ms minimal distance,  *)
(* 1000 uV maximal height and sample 18 as the relevant one).  Sequences   *)
(* are indexed from 1 where numpy indexes from 0.                          *)
(***************************************************************************)
EXTENDS Integers, Sequences, FiniteSets, TLC

\* ------------------------------------------------------------------ constants

SIGNS == <<"pos", "neg">>

RESET == TRUE

\* options_by_diff; the source has 'binlength': 500 and
\* 'max_spk_per_bin': 100
art_id_diff == 1
binlength == 2
max_spk_per_bin == 1

\* options_by_height; the source has 'max_height': 1000
art_id_height == 2
max_height == 1

\* options_by_bincount
art_id_bincount == 4

\* options_double; the source has 'relevant_idx': 18, counted from 0, and
\* 'min_dist': 1.5, which whole time stamps are below exactly when they
\* are below 2
art_id_double == 8
relevant_idx == 2
min_dist == 2

\* ------------------------------------------------------------------ bounds

\* recordings handed to the loop of parse_args
NumFiles == 2
\* spikes per polarity and latest time stamp, in the runs of main()
MaxSpikes == 3
MaxTime == 3
\* the same for the detectors called on their own
DiffMaxSpikes == 6
DiffMaxTime == 8
DoubleMaxSpikes == 4
DoubleMaxTime == 4

\* a waveform has just enough samples to hold the relevant one
NumSamples == relevant_idx
Samples == {-max_height, max_height}
\* the values of the relevant sample when mark_double_detection is called
\* on its own; the other samples are 0 there
DoubleSamples == (-max_height)..max_height

\* ------------------------------------------------------------------ numpy

Max(S) == CHOOSE x \in S : \A y \in S : y <= x
Min(S) == CHOOSE x \in S : \A y \in S : x <= y

\* np.arange(start, stop, step) for whole numbers, step > 0
Arange(start, stop, step) ==
    LET n == IF stop > start THEN (stop - start + step - 1) \div step ELSE 0
    IN  [k \in 1..n |-> start + (k - 1) * step]

\* np.histogram(times, bins): bin j is [bins[j], bins[j+1]), the last one
\* is closed on the right
InBin(t, bins, j) ==
    /\ bins[j] <= t
    /\ IF j = Len(bins) - 1 THEN t <= bins[j + 1] ELSE t < bins[j + 1]

Histogram(times, bins) ==
    [j \in 1..(Len(bins) - 1) |->
        Cardinality({k \in 1..Len(times) : InBin(times[k], bins, j)})]

\* the sequences of n values of T in ascending order
RECURSIVE SortedSeqs(_, _)
SortedSeqs(n, T) ==
    IF n = 0
    THEN {<<>>}
    ELSE UNION {{Append(s, t) : t \in {u \in T : n = 1 \/ s[n - 1] <= u}} :
                s \in SortedSeqs(n - 1, T)}

Trains(lo, hi, maxTime) ==
    UNION {SortedSeqs(n, 0..maxTime) : n \in lo..hi}

\* ------------------------------------------------------------------ detectors

\* the comparison of mycmp, not strict
mycmpGe(a, b, sign) ==
    IF sign = "pos" THEN a >= b
    ELSE IF sign = "neg" THEN a <= b
    ELSE FALSE

\* mycmp returns None, which is false, for any other sign
mycmp(a, b, sign) ==
    IF sign = "pos" THEN a > b
    ELSE IF sign = "neg" THEN a < b
    ELSE FALSE

\* the pairs no farther apart than min_dist
double_idxLe(times) ==
    {i \in 1..(Len(times) - 1) : times[i + 1] - times[i] <= min_dist}

\* double_idx.nonzero()[0]: the pairs (i, i+1) closer than min_dist
double_idx(times) ==
    {i \in 1..(Len(times) - 1) : times[i + 1] - times[i] < min_dist}

\* the spike of the pair (i, i+1) that is marked
kill(spikes, sign, i) ==
    IF mycmp(spikes[i][relevant_idx], spikes[i + 1][relevant_idx], sign)
    THEN i + 1
    ELSE i

mark_double_detection(times, spikes, sign) ==
    [k \in 1..Len(times) |->
        \E i \in double_idx(times) : kill(spikes, sign, i) = k]

\* counts >= max_per_bin
too_manyGe(count) == count >= max_spk_per_bin

\* counts > max_per_bin
too_many(count) == count > max_spk_per_bin

\* (0, bin_len/2)
shifts == {0, binlength \div 2}

bins_of(times, shift) ==
    Arange(times[1] + shift, times[Len(times)] + shift, binlength)

left_edges_too_many(times, shift) ==
    LET bins == bins_of(times, shift)
        counts == Histogram(times, bins)
    IN  IF Len(bins) < 2
        THEN {}
        ELSE {bins[j] : j \in {i \in 1..(Len(bins) - 1) : too_many(counts[i])}}

\* idx = (times >= edge) & (times <= edge + bin_len); artifacts[idx] = True
mark_edges(times, edges, bin_len) ==
    [k \in 1..Len(times) |->
        \E edge \in edges : times[k] >= edge /\ times[k] <= edge + bin_len]

mark_by_diff(times) ==
    mark_edges(times,
               UNION {left_edges_too_many(times, shift) : shift \in shifts},
               binlength)

mark_by_bincount(times, left_edges, bin_len) ==
    mark_edges(times, left_edges, bin_len)

RowSet(row) == {row[c] : c \in 1..Len(row)}

\* sign is one of SIGNS here; any other raises ValueError
mark_by_height(spikes, sign) ==
    [k \in 1..Len(spikes) |->
        IF sign = "pos" THEN Max(RowSet(spikes[k])) >= max_height
        ELSE Min(RowSet(spikes[k])) <= -max_height]

\* ------------------------------------------------------------------ main

\* h5fid.create_array(..., atom=tables.Int8Atom(), shape=(num_spk, )): the
\* new array holds the atom's default, 0
create_array(num_spk) == [k \in 1..num_spk |-> 0]

\* artifacts = h5fid.get_node(...), created first when there is none
get_or_create(rec) ==
    IF rec.has_artifacts
    THEN rec.artifacts
    ELSE create_array(Len(rec.times))

\* artifacts[mask != 0] += id
assign_add(artifacts, mask, id) ==
    [k \in 1..Len(artifacts) |->
        IF mask[k] THEN artifacts[k] + id ELSE artifacts[k]]

\* artifacts[mask != 0] = id
assign(artifacts, mask, id) ==
    [k \in 1..Len(artifacts) |-> IF mask[k] THEN id ELSE artifacts[k]]

\* if RESET: artifacts[:] = 0
reset(artifacts) ==
    IF RESET THEN [k \in 1..Len(artifacts) |-> 0] ELSE artifacts

\* the detectors adding their codes to what the record holds, no reset
detect_accumulate(artifacts, times, spikes, sign, conc) ==
    LET by_diff == assign_add(artifacts, mark_by_diff(times), art_id_diff)
        by_height == assign_add(by_diff, mark_by_height(spikes, sign),
                                art_id_height)
        by_conc == IF conc.given
                   THEN assign_add(by_height,
                                   mark_by_bincount(times, conc.edges, conc.bin),
                                   art_id_bincount)
                   ELSE by_height
    IN  assign_add(by_conc, mark_double_detection(times, spikes, sign),
                   art_id_double)

\* the body of main() from the reset to the last detector
detect(artifacts, times, spikes, sign, conc) ==
    LET cleared == reset(artifacts)
        by_diff == assign(cleared, mark_by_diff(times), art_id_diff)
        by_height == assign(by_diff, mark_by_height(spikes, sign),
                            art_id_height)
        by_conc == IF conc.given
                   THEN assign(by_height,
                               mark_by_bincount(times, conc.edges, conc.bin),
                               art_id_bincount)
                   ELSE by_height
    IN  assign(by_conc, mark_double_detection(times, spikes, sign),
               art_id_double)

\* the records of a polarity after a whole turn of the loop
processed(rec, sign, conc) ==
    [rec EXCEPT !.has_artifacts = TRUE,
                !.artifacts = detect(get_or_create(rec), rec.times, rec.spikes,
                                     sign, conc)]

\* the artifacts record fetched or created, and reset, before the test
\* for spikes
skip_create(rec) ==
    IF rec.node # "array"
    THEN rec
    ELSE [rec EXCEPT !.has_artifacts = TRUE,
                     !.artifacts = reset(get_or_create(rec))]

\* the records of a polarity after "continue": nothing was touched
skip(rec) == rec

\* get_node('/' + sign + '/times') raises NoSuchNodeError
no_times(rec) == rec.node = "absent"

\* len(node.shape) == 0
is_scalar(rec) == rec.node = "scalar"

\* node.shape[0] == 0
is_empty(rec) == Len(rec.times) = 0

\* assert num_spk == spikes.shape[0]
rows_match(rec) == Len(rec.times) = Len(rec.spikes)

VARIABLES
    store,          \* the records of every recording: [file][sign]
    files,          \* the list parse_args loops over
    concurrent,     \* concurrent_edges and concurrent_bin, or none
    pc,             \* "loop": parse_args between two calls of main;
                    \* "main": inside main; "raised": an exception left main
    fpos,           \* the place in files of the call of main
    spos,           \* the place in SIGNS of the next polarity
    handles,        \* the handles that are open: <<file, sign>> each
    outcome,        \* what main did: [place in files][sign]
    before,         \* the recording as each call of main found it
    after,          \* the recording as each call of main left it
    arg_times,      \* a detector called on its own: its arguments,
    arg_spikes,
    arg_sign,
    called,         \* which one was called,
    ret_mask        \* and the mask it returned

vars == <<store, files, concurrent, pc, fpos, spos, handles, outcome,
          before, after, arg_times, arg_spikes, arg_sign, called, ret_mask>>

mainVars == <<store, files, concurrent, pc, fpos, spos, handles, outcome,
              before, after>>
callVars == <<arg_times, arg_spikes, arg_sign, called, ret_mask>>

SignSet == {SIGNS[i] : i \in 1..Len(SIGNS)}
CurFile == files[fpos]
CurSign == SIGNS[spos]
CurRec == store[CurFile][CurSign]

\* for fname in files: main(fname, concurrent_edges, concurrent_bin)
CallMain ==
    /\ pc = "loop"
    /\ fpos <= Len(files)
    /\ pc' = "main"
    /\ spos' = 1
    /\ before' = [before EXCEPT ![fpos] = store[CurFile]]
    /\ UNCHANGED <<store, files, concurrent, fpos, handles, outcome, after>>
    /\ UNCHANGED callVars

\* one turn of "for sign in SIGNS" that ends in "continue": the handle
\* that was opened is not closed
Continue ==
    /\ handles' = Append(handles, <<CurFile, CurSign>>)
    /\ store' = [store EXCEPT ![CurFile][CurSign] = skip(CurRec)]
    /\ outcome' = [outcome EXCEPT ![fpos][CurSign] = "skipped"]
    /\ spos' = spos + 1
    /\ UNCHANGED <<files, concurrent, pc, fpos, before, after>>
    /\ UNCHANGED callVars

SkipNoTimes ==
    /\ pc = "main"
    /\ spos <= Len(SIGNS)
    /\ no_times(CurRec)
    /\ Continue

SkipScalar ==
    /\ pc = "main"
    /\ spos <= Len(SIGNS)
    /\ ~no_times(CurRec)
    /\ is_scalar(CurRec)
    /\ Continue

SkipEmpty ==
    /\ pc = "main"
    /\ spos <= Len(SIGNS)
    /\ ~no_times(CurRec)
    /\ ~is_scalar(CurRec)
    /\ is_empty(CurRec)
    /\ Continue

\* the assert fails: AssertionError leaves main and, uncaught, the loop of
\* parse_args
RaiseAssertion ==
    /\ pc = "main"
    /\ spos <= Len(SIGNS)
    /\ ~no_times(CurRec)
    /\ ~is_scalar(CurRec)
    /\ ~is_empty(CurRec)
    /\ ~rows_match(CurRec)
    /\ handles' = Append(handles, <<CurFile, CurSign>>)
    /\ outcome' = [outcome EXCEPT ![fpos][CurSign] = "raised"]
    /\ pc' = "raised"
    /\ UNCHANGED <<store, files, concurrent, fpos, spos, before, after>>
    /\ UNCHANGED callVars

\* one whole turn: open, load, detect, close
Process ==
    /\ pc = "main"
    /\ spos <= Len(SIGNS)
    /\ ~no_times(CurRec)
    /\ ~is_scalar(CurRec)
    /\ ~is_empty(CurRec)
    /\ rows_match(CurRec)
    /\ store' = [store EXCEPT ![CurFile][CurSign] = processed(CurRec, CurSign,
                                                                concurrent)]
    /\ handles' = SubSeq(Append(handles, <<CurFile, CurSign>>), 1, Len(handles))
    /\ outcome' = [outcome EXCEPT ![fpos][CurSign] = "processed"]
    /\ spos' = spos + 1
    /\ UNCHANGED <<files, concurrent, pc, fpos, before, after>>
    /\ UNCHANGED callVars

\* the loop over SIGNS is over: main returns
ReturnMain ==
    /\ pc = "main"
    /\ spos > Len(SIGNS)
    /\ pc' = "loop"
    /\ fpos' = fpos + 1
    /\ after' = [after EXCEPT ![fpos] = store[CurFile]]
    /\ UNCHANGED <<store, files, concurrent, spos, handles, outcome, before>>
    /\ UNCHANGED callVars

Next ==
    \/ CallMain
    \/ SkipNoTimes
    \/ SkipScalar
    \/ SkipEmpty
    \/ RaiseAssertion
    \/ Process
    \/ ReturnMain

\* ------------------------------------------------------------------ inputs

Waveforms == [1..NumSamples -> Samples]

\* a polarity of a recording: node tells whether /sign/times is there
\* ("absent"), has no shape ("scalar") or is an array
Rec(node, t, w, has, a) ==
    [node |-> node, times |-> t, spikes |-> w, has_artifacts |-> has,
     artifacts |-> a]

\* an artifacts record of an earlier run: one code per spike, here 8 and 1
\* in turn
Priors(n) ==
    {[k \in 1..n |-> IF k % 2 = 1 THEN art_id_double ELSE art_id_diff]}

NoTimesRecs == {Rec("absent", <<>>, <<>>, FALSE, <<>>),
                Rec("absent", <<>>, <<>>, TRUE, <<art_id_double>>)}
ScalarRecs == {Rec("scalar", <<>>, <<>>, FALSE, <<>>)}

\* times t and waveforms w, without and with an artifacts record
WithPriors(t, w) ==
    {Rec("array", t, w, FALSE, <<>>)}
    \cup {Rec("array", t, w, TRUE, a) : a \in Priors(Len(t))}

\* concurrent_edges and concurrent_bin: None with --no-concurrent
ConcurrentInputs == {[given |-> FALSE, edges |-> {}, bin |-> 0],
                     [given |-> TRUE, edges |-> {1}, bin |-> 1]}

Pending(n) == [p \in 1..n |-> [s \in SignSet |-> "pending"]]

InitCalls ==
    /\ arg_times = <<>>
    /\ arg_spikes = <<>>
    /\ arg_sign = "pos"
    /\ called = "none"
    /\ ret_mask = <<>>

InitMain(fs) ==
    /\ files = fs
    /\ pc = "loop"
    /\ fpos = 1
    /\ spos = 1
    /\ handles = <<>>
    /\ outcome = Pending(Len(fs))
    /\ before = [p \in 1..Len(fs) |-> store[fs[p]]]
    /\ after = [p \in 1..Len(fs) |-> store[fs[p]]]
    /\ InitCalls

Flat(v) == [c \in 1..NumSamples |-> v]

\* the polarities of the recordings of a batch: no times, scalar times, no
\* spike, one spike, one spike and no waveform
BatchRecs ==
    NoTimesRecs \cup ScalarRecs
    \cup WithPriors(<<>>, <<>>)
    \cup {Rec("array", <<0>>, <<Flat(-max_height)>>, FALSE, <<>>)}
    \cup {Rec("array", <<0>>, <<>>, FALSE, <<>>)}

\* parse_args over a directory of NumFiles recordings
Init ==
    /\ store \in [1..NumFiles -> [SignSet -> BatchRecs]]
    /\ concurrent \in ConcurrentInputs
    /\ InitMain([p \in 1..NumFiles |-> p])

Spec == Init /\ [][Next]_vars

\* a recording that has one polarity only
OneSided(sign, rec) ==
    [f \in {1} |->
        [s \in SignSet |->
            IF s = sign THEN rec ELSE Rec("absent", <<>>, <<>>, FALSE, <<>>)]]

\* main called twice in succession on the one recording, whose polarity
\* has no times, scalar times, up to MaxSpikes spikes with their
\* waveforms, or spikes with one waveform missing
InitRerun ==
    /\ \E sign \in SignSet :
          \/ \E rec \in NoTimesRecs \cup ScalarRecs :
                store = OneSided(sign, rec)
          \/ \E t \in Trains(0, MaxSpikes, MaxTime) :
                \E w \in [1..Len(t) -> Waveforms] :
                    \E rec \in WithPriors(t, w) :
                        store = OneSided(sign, rec)
          \/ \E t \in Trains(1, MaxSpikes, MaxTime) :
                \E w \in [1..(Len(t) - 1) -> Waveforms] :
                    store = OneSided(sign, Rec("array", t, w, FALSE, <<>>))
    /\ concurrent \in ConcurrentInputs
    /\ InitMain(<<1, 1>>)

SpecRerun == InitRerun /\ [][Next]_vars

\* ------------------------------------------------------------------ detectors
\* called on their own

Call_mark_double_detection ==
    /\ called = "none"
    /\ called' = "double"
    /\ ret_mask' = mark_double_detection(arg_times, arg_spikes, arg_sign)
    /\ UNCHANGED <<arg_times, arg_spikes, arg_sign>>
    /\ UNCHANGED mainVars

Call_mark_by_diff ==
    /\ called = "none"
    /\ called' = "diff"
    /\ ret_mask' = mark_by_diff(arg_times)
    /\ UNCHANGED <<arg_times, arg_spikes, arg_sign>>
    /\ UNCHANGED mainVars

DoubleWaveforms ==
    {[c \in 1..NumSamples |-> IF c = relevant_idx THEN v ELSE 0] :
        v \in DoubleSamples}

InitDouble ==
    /\ arg_times \in Trains(0, DoubleMaxSpikes, DoubleMaxTime)
    /\ arg_spikes \in [1..Len(arg_times) -> DoubleWaveforms]
    /\ arg_sign \in SignSet
    /\ called = "none"
    /\ ret_mask = <<>>
    /\ store = <<>>
    /\ concurrent = [given |-> FALSE, edges |-> {}, bin |-> 0]
    /\ files = <<>>
    /\ pc = "loop"
    /\ fpos = 1
    /\ spos = 1
    /\ handles = <<>>
    /\ outcome = <<>>
    /\ before = <<>>
    /\ after = <<>>

SpecDouble == InitDouble /\ [][Call_mark_double_detection]_vars

\* main calls mark_by_diff with at least one spike
InitDiff ==
    /\ arg_times \in Trains(1, DiffMaxSpikes, DiffMaxTime)
    /\ arg_spikes = <<>>
    /\ arg_sign = "pos"
    /\ called = "none"
    /\ ret_mask = <<>>
    /\ store = <<>>
    /\ concurrent = [given |-> FALSE, edges |-> {}, bin |-> 0]
    /\ files = <<>>
    /\ pc = "loop"
    /\ fpos = 1
    /\ spos = 1
    /\ handles = <<>>
    /\ outcome = <<>>
    /\ before = <<>>
    /\ after = <<>>

SpecDiff == InitDiff /\ [][Call_mark_by_diff]_vars

\* ------------------------------------------------------------------ claims

Positions == 1..Len(files)

\* the art_id of the last detector, in the order of main, whose mask has
\* spike k; 0 when none has
LastFlagged(rec, sign, conc, k) ==
    IF mark_double_detection(rec.times, rec.spikes, sign)[k]
    THEN art_id_double
    ELSE IF conc.given /\ mark_by_bincount(rec.times, conc.edges, conc.bin)[k]
    THEN art_id_bincount
    ELSE IF mark_by_height(rec.spikes, sign)[k]
    THEN art_id_height
    ELSE IF mark_by_diff(rec.times)[k]
    THEN art_id_diff
    ELSE 0

\* C1: once main has processed a polarity, the stored code of every spike
\* is the art_id of the last detector (rate 1, amplitude 2, bincount 4 when
\* concurrent edges are given, double 8) that flagged it, and 0 when no
\* detector flagged it.
C1_LastDetectorWins ==
    \A p \in Positions, s \in SignSet :
        outcome[p][s] = "processed" =>
            LET rec == store[files[p]][s]
            IN  /\ rec.has_artifacts
                /\ Len(rec.artifacts) = Len(rec.times)
                /\ \A k \in 1..Len(rec.times) :
                      rec.artifacts[k] = LastFlagged(rec, s, concurrent, k)

\* a spike flagged by the rate and the amplitude detector and by no later
\* one is stored with code 2
C1_Witness ==
    \E p \in Positions, s \in SignSet :
        /\ outcome[p][s] = "processed"
        /\ LET rec == store[files[p]][s]
           IN  \E k \in 1..Len(rec.times) :
                  /\ mark_by_diff(rec.times)[k]
                  /\ mark_by_height(rec.spikes, s)[k]
                  /\ ~mark_double_detection(rec.times, rec.spikes, s)[k]
                  /\ concurrent.given
                  /\ ~mark_by_bincount(rec.times, concurrent.edges,
                                       concurrent.bin)[k]
                  /\ rec.artifacts[k] = art_id_height

\* the program is over: the loop of parse_args ran out of recordings, or an
\* exception ended it
Terminated ==
    \/ pc = "raised"
    \/ pc = "loop" /\ fpos > Len(files)

\* C3: a polarity whose waveforms do not match its times fails alone: when
\* the program is over, every other polarity of every recording of the
\* batch has been processed or skipped.
C3_MismatchConfined ==
    Terminated =>
        \A p \in Positions, s \in SignSet :
            outcome[p][s] \in {"processed", "skipped", "raised"}

\* C4: no handle that main opened is open when the loop goes on to the next
\* polarity or main returns.
C4_HandlesClosed ==
    pc \in {"loop", "main"} => handles = <<>>

SkipCase(rec) ==
    \/ rec.node = "absent"
    \/ rec.node = "array" /\ Len(rec.times) = 0

\* C5: a polarity whose times record is absent or holds no spike is skipped
\* without an error, and its records are what they were before main, the
\* artifacts record included.
C5_SkipLeavesRecords ==
    \A p \in Positions, s \in SignSet :
        (outcome[p][s] # "pending" /\ SkipCase(before[p][s])) =>
            /\ outcome[p][s] = "skipped"
            /\ store[files[p]][s] = before[p][s]

\* a skipped polarity, once without and once with an artifacts record
C5_Witness ==
    \E p \in Positions :
        /\ SkipCase(before[p]["pos"]) /\ outcome[p]["pos"] = "skipped"
        /\ ~before[p]["pos"].has_artifacts
        /\ SkipCase(before[p]["neg"]) /\ outcome[p]["neg"] = "skipped"
        /\ before[p]["neg"].has_artifacts
        /\ before[p]["pos"].node # before[p]["neg"].node

\* C6: main run twice in succession on one recording leaves the same
\* artifacts record after the second run as after the first.
C6_RerunSame ==
    \A p \in Positions, q \in Positions :
        (p < q /\ q < fpos /\ files[p] = files[q]) => after[q] = after[p]

\* both runs are over; the first found codes of an earlier run and changed
\* them, to a code other than 0 for some spike
C6_Witness ==
    /\ Len(files) = 2
    /\ fpos = 3
    /\ \E s \in SignSet :
          /\ outcome[1][s] = "processed"
          /\ outcome[2][s] = "processed"
          /\ before[1][s].has_artifacts
          /\ after[1][s].artifacts # before[1][s].artifacts
          /\ \E k \in 1..Len(after[2][s].artifacts) :
                after[2][s].artifacts[k] # 0

\* the pair (i, i+1) of the train is closer than min_dist
Close(times, i) ==
    /\ i \in 1..(Len(times) - 1)
    /\ times[i + 1] - times[i] < min_dist

\* neither neighbouring pair is closer than min_dist
Isolated(times, i) ==
    /\ ~Close(times, i - 1)
    /\ ~Close(times, i + 1)

\* C2, as stated: of every adjacent pair closer than min_dist,
\* mark_double_detection flags exactly one spike.
C2_ExactlyOne ==
    called = "double" =>
        \A i \in 1..(Len(arg_times) - 1) :
            Close(arg_times, i) => (ret_mask[i] # ret_mask[i + 1])

\* C2, amended: of every adjacent pair closer than min_dist,
\* mark_double_detection flags at least one spike, and exactly one when
\* neither neighbouring pair is closer than min_dist.
C2_AtLeastOne ==
    called = "double" =>
        \A i \in 1..(Len(arg_times) - 1) :
            Close(arg_times, i) =>
                /\ ret_mask[i] \/ ret_mask[i + 1]
                /\ Isolated(arg_times, i) => ~(ret_mask[i] /\ ret_mask[i + 1])

\* a run of three close spikes with both spikes of a pair flagged
C2_Witness ==
    /\ called = "double"
    /\ \E i \in 1..(Len(arg_times) - 1) :
          /\ Close(arg_times, i)
          /\ ~Isolated(arg_times, i)
          /\ ret_mask[i] /\ ret_mask[i + 1]

Feature(spikes, k) == spikes[k][relevant_idx]

\* C9: of an adjacent pair closer than min_dist with equal values of the
\* relevant sample, mark_double_detection flags the earlier spike, for
\* either polarity.
C9_TieFlagsEarlier ==
    called = "double" =>
        \A i \in 1..(Len(arg_times) - 1) :
            (Close(arg_times, i)
               /\ Feature(arg_spikes, i) = Feature(arg_spikes, i + 1))
            => ret_mask[i]

\* a negative train with one tied pair on its own, whose later spike is
\* not flagged
C9_Witness ==
    /\ called = "double"
    /\ arg_sign = "neg"
    /\ \E i \in 1..(Len(arg_times) - 1) :
          /\ Close(arg_times, i)
          /\ Isolated(arg_times, i)
          /\ Feature(arg_spikes, i) = Feature(arg_spikes, i + 1)
          /\ ret_mask[i]
          /\ ~ret_mask[i + 1]

\* a..b is a maximal run of spikes each closer than min_dist to the next
MaximalRun(times, a, b) ==
    /\ a < b
    /\ \A i \in a..(b - 1) : Close(times, i)
    /\ ~Close(times, a - 1)
    /\ ~Close(times, b)

\* the extreme value of the relevant sample in a..b: the largest for
\* "pos", the smallest for "neg"
Extreme(spikes, sign, a, b) ==
    IF sign = "pos"
    THEN Max({Feature(spikes, k) : k \in a..b})
    ELSE Min({Feature(spikes, k) : k \in a..b})

\* the latest spike of a..b with the extreme value
LatestExtreme(spikes, sign, a, b) ==
    Max({k \in a..b : Feature(spikes, k) = Extreme(spikes, sign, a, b)})

\* C10: in every maximal run of close spikes mark_double_detection leaves
\* the latest spike with the extreme value of the relevant sample
\* unflagged, so at least one spike of the run is unflagged.
C10_ExtremeKept ==
    called = "double" =>
        \A a \in 1..Len(arg_times), b \in 1..Len(arg_times) :
            MaximalRun(arg_times, a, b) =>
                ~ret_mask[LatestExtreme(arg_spikes, arg_sign, a, b)]

\* a run of three spikes, the extreme value shared by two of them, of
\* which the earlier one is flagged
C10_Witness ==
    /\ called = "double"
    /\ \E a \in 1..Len(arg_times), b \in 1..Len(arg_times) :
          /\ MaximalRun(arg_times, a, b)
          /\ b >= a + 2
          /\ \E k \in a..b :
                /\ k # LatestExtreme(arg_spikes, arg_sign, a, b)
                /\ Feature(arg_spikes, k) = Extreme(arg_spikes, arg_sign, a, b)
                /\ ret_mask[k]
          /\ ~ret_mask[LatestExtreme(arg_spikes, arg_sign, a, b)]

\* the numbers of spikes np.histogram counts in the bins of one anchoring
Counts(times, shift) == Histogram(times, bins_of(times, shift))

\* no bin of either anchoring holds more than max_spk_per_bin spikes
NoBinOver(times) ==
    \A shift \in shifts :
        \A j \in 1..(Len(bins_of(times, shift)) - 1) :
            Counts(times, shift)[j] <= max_spk_per_bin

\* C7: when no histogram bin of either anchoring holds more than
\* max_spk_per_bin spikes, mark_by_diff flags no spike.
C7_NoFlagBelowLimit ==
    called = "diff" =>
        (NoBinOver(arg_times) =>
            \A k \in 1..Len(arg_times) : ~ret_mask[k])

\* both anchorings have bins, one of them holds exactly max_spk_per_bin
\* spikes, none holds more
C7_Witness ==
    /\ called = "diff"
    /\ NoBinOver(arg_times)
    /\ \A shift \in shifts : Len(bins_of(arg_times, shift)) >= 2
    /\ \E shift \in shifts :
          \E j \in 1..(Len(bins_of(arg_times, shift)) - 1) :
              Counts(arg_times, shift)[j] = max_spk_per_bin

\* the time stamp t lies in a bin of the anchoring
Covered(times, shift, t) ==
    \E j \in 1..(Len(bins_of(times, shift)) - 1) :
        InBin(t, bins_of(times, shift), j)

\* C8: each anchoring of mark_by_diff covers the time range of the train:
\* every spike lies in a histogram bin of the anchoring and is counted.
\* Stated here for the anchorings that have bins, and for the spikes from
\* the first bin edge of the anchoring on.
C8_FullRangeCovered ==
    called = "diff" =>
        \A shift \in shifts :
            Len(bins_of(arg_times, shift)) >= 2 =>
                \A k \in 1..Len(arg_times) :
                    arg_times[k] >= arg_times[1] + shift =>
                        Covered(arg_times, shift, arg_times[k])

====
